---- MODULE Spec2Model ----
(***************************************************************************)
(* The Dashboard component of project/src/components/Dashboard.tsx: the    *)
(* stats view model, the effect that runs fetchStats on every change of    *)
(* the profile, the two awaited document-store queries of the faculty      *)
(* path, the synchronous student path, the catch block and the render.     *)
(***************************************************************************)
EXTENDS FiniteSets, Integers, Sequences, TLC

VARIABLES userProfile, stats, effectPending, fetches, lastWriter

vars == <<userProfile, stats, effectPending, fetches, lastWriter>>

(***************************************************************************)
(* Bounds of the model.                                                    *)
(***************************************************************************)
MaxFetches == 2
MaxStudents == 2
MaxExperiments == 1
MaxWideStudents == 10
MaxWideExperiments == 2
MaxProfileCompleted == 6
MaxViva == 6

(***************************************************************************)
(* Values.                                                                 *)
(***************************************************************************)
\* useAuth() gives no profile: userProfile is null/undefined.
NoProfile == [absent |-> TRUE]

HasProfile(p) == "role" \in DOMAIN p

colors == <<"#3B82F6", "#10B981", "#F59E0B", "#EF4444",
            "#8B5CF6", "#06B6D4", "#84CC16", "#F97316">>

InitialStats ==
  [ totalStudents |-> 0,
    totalExperiments |-> 0,
    completedExperiments |-> 0,
    vivaAttempts |-> 0,
    sectionWiseStudents |-> <<>>,
    experimentProgress |-> <<>>,
    vivaProgress |-> <<>> ]

\* Max without the clamp: Math.max(0, x) written as x
MaxUnclamped(a, b) == b

Max(a, b) == IF a >= b THEN a ELSE b

(***************************************************************************)
(* The section map: a JS Map, kept as the sequence of its <<key, value>>   *)
(* entries in insertion order.                                             *)
(***************************************************************************)
MapHas(m, k) == \E i \in 1..Len(m) : m[i][1] = k

\* MapGetOrZero that forgets the count so far: every student starts at 0
MapGetLost(m, k) == 0

\* sectionMap.get(section) || 0
MapGetOrZero(m, k) ==
  IF MapHas(m, k) THEN m[CHOOSE i \in 1..Len(m) : m[i][1] = k][2] ELSE 0

\* sectionMap.set(k, v): an existing key keeps its place, a new one is last
MapSet(m, k, v) ==
  IF MapHas(m, k)
  THEN [i \in 1..Len(m) |-> IF m[i][1] = k THEN <<k, v>> ELSE m[i]]
  ELSE Append(m, <<k, v>>)

\* SectionOf with ?? in place of ||: an empty section keeps its own label
SectionOfNullish(student) ==
  IF "section" \in DOMAIN student THEN student.section ELSE "Unknown"

\* student.section || 'Unknown'
SectionOf(student) ==
  IF "section" \in DOMAIN student /\ student.section # ""
  THEN student.section
  ELSE "Unknown"

\* the forEach that fills sectionMap, from student i on
RECURSIVE FillSectionMap(_, _, _)
FillSectionMap(students, i, m) ==
  IF i > Len(students) THEN m
  ELSE FillSectionMap(students, i + 1,
         MapSet(m, SectionOf(students[i]),
                MapGetOrZero(m, SectionOf(students[i])) + 1))

sectionMap(students) == FillSectionMap(students, 1, <<>>)

\* Array.from(sectionMap.entries()).map(([section, count], index) => ...)
sectionData(students) ==
  LET m == sectionMap(students)
  IN [i \in 1..Len(m) |->
        [ name |-> m[i][1],
          value |-> m[i][2],
          color |-> colors[((i - 1) % Len(colors)) + 1] ]]

\* (student.experimentsCompleted || []).length
CompletedOf(student) ==
  IF "experimentsCompleted" \in DOMAIN student
  THEN Len(student.experimentsCompleted)
  ELSE 0

\* the forEach that adds up totalCompletions, from student i on
RECURSIVE AddCompletions(_, _, _)
AddCompletions(students, i, acc) ==
  IF i > Len(students) THEN acc
  ELSE AddCompletions(students, i + 1, acc + CompletedOf(students[i]))

totalCompletions(students) == AddCompletions(students, 1, 0)

\* the object the faculty branch passes to setStats
FacultyStats(students, experiments) ==
  [ totalStudents |-> Len(students),
    totalExperiments |-> Len(experiments),
    completedExperiments |-> totalCompletions(students),
    vivaAttempts |-> 0,
    sectionWiseStudents |-> sectionData(students),
    experimentProgress |->
      << [name |-> "Completed", value |-> totalCompletions(students),
          color |-> "#10B981"],
         [name |-> "Pending",
          value |-> Max(0, (Len(students) * Len(experiments))
                            - totalCompletions(students)),
          color |-> "#F59E0B"] >>,
    vivaProgress |->
      << [name |-> "Attempted", value |-> 30, color |-> "#3B82F6"],
         [name |-> "Not Attempted", value |-> 70, color |-> "#E5E7EB"] >> ]

\* studentData.experimentsCompleted?.length || 0
completedExperiments(p) ==
  IF "experimentsCompleted" \in DOMAIN p THEN Len(p.experimentsCompleted) ELSE 0

\* vivaScores left at the placeholder of the faculty branch
vivaScoresPlaceholder(p) == 0

\* Object.keys(studentData.vivaScores || {}).length
vivaScores(p) ==
  IF "vivaScores" \in DOMAIN p THEN Cardinality(DOMAIN p.vivaScores) ELSE 0

\* the object the student branch passes to setStats
StudentStats(p) ==
  [ totalStudents |-> 0,
    totalExperiments |-> 5,
    completedExperiments |-> completedExperiments(p),
    vivaAttempts |-> vivaScores(p),
    sectionWiseStudents |-> <<>>,
    experimentProgress |->
      << [name |-> "Completed", value |-> completedExperiments(p),
          color |-> "#10B981"],
         [name |-> "Remaining",
          value |-> Max(0, 5 - completedExperiments(p)),
          color |-> "#F59E0B"] >>,
    vivaProgress |->
      << [name |-> "Attempted", value |-> vivaScores(p), color |-> "#3B82F6"],
         [name |-> "Remaining",
          value |-> Max(0, 5 - vivaScores(p)),
          color |-> "#E5E7EB"] >> ]

(***************************************************************************)
(* The render.  A card value is a number, or what the division by zero of  *)
(* the Success Rate card gives: NaN (0 / 0) or Infinity (n / 0).           *)
(***************************************************************************)
NullView == [view |-> "null"]

Number(n) == [number |-> n]
NaN == [nan |-> TRUE]
Infinity == [infinity |-> TRUE]

\* Math.round((stats.completedExperiments / stats.totalExperiments) * 100)
SuccessRate(st) ==
  IF st.totalExperiments = 0
  THEN IF st.completedExperiments = 0 THEN NaN ELSE Infinity
  ELSE Number(((200 * st.completedExperiments) + st.totalExperiments)
                \div (2 * st.totalExperiments))

StatCard(title, value) == [title |-> title, value |-> value]

PieChartCard(title, data) == [title |-> title, data |-> data]

\* what the component returns for the current profile and view model
Render ==
  IF ~HasProfile(userProfile) THEN NullView
  ELSE IF userProfile.role = "faculty"
  THEN [ view |-> "Faculty Dashboard",
         cards |-> << StatCard("Total Students", Number(stats.totalStudents)),
                      StatCard("Total Experiments", Number(stats.totalExperiments)),
                      StatCard("Completed Experiments",
                               Number(stats.completedExperiments)),
                      StatCard("Viva Attempts", Number(stats.vivaAttempts)) >>,
         charts |->
           (IF Len(stats.sectionWiseStudents) > 0
            THEN << PieChartCard("Students by Section", stats.sectionWiseStudents) >>
            ELSE << >>)
           \o << PieChartCard("Experiment Progress", stats.experimentProgress),
                 PieChartCard("Viva Progress", stats.vivaProgress) >> ]
  ELSE [ view |-> "Student Dashboard",
         cards |-> << StatCard("Experiments Completed",
                               Number(stats.completedExperiments)),
                      StatCard("Viva Questions Attempted", Number(stats.vivaAttempts)),
                      StatCard("Total Experiments", Number(stats.totalExperiments)),
                      StatCard("Success Rate", SuccessRate(stats)) >>,
         charts |-> << PieChartCard("Experiment Progress", stats.experimentProgress),
                       PieChartCard("Viva Progress", stats.vivaProgress) >> ]

(***************************************************************************)
(* Inputs: profiles the auth provider can supply and snapshots the         *)
(* document store can return.                                              *)
(***************************************************************************)
FacultyProfile(uid) == [role |-> "faculty", uid |-> uid]

\* a student profile; n or k below 0 leaves the field out
StudentProfile(uid, n, k) ==
  IF n < 0 /\ k < 0 THEN [role |-> "student", uid |-> uid]
  ELSE IF k < 0 THEN [role |-> "student", uid |-> uid,
                      experimentsCompleted |-> [i \in 1..n |-> i]]
  ELSE IF n < 0 THEN [role |-> "student", uid |-> uid,
                      vivaScores |-> [q \in 1..k |-> 10]]
  ELSE [role |-> "student", uid |-> uid,
        experimentsCompleted |-> [i \in 1..n |-> i],
        vivaScores |-> [q \in 1..k |-> 10]]

Profiles == { NoProfile, FacultyProfile("f1"), StudentProfile("s1", 2, 1) }

WideProfiles ==
  { NoProfile, FacultyProfile("f1") }
  \cup { StudentProfile("s1", n, k) :
           n \in -1..MaxProfileCompleted, k \in -1..MaxViva }

\* section values of student documents; index 0 stands for a missing field
SectionLabels == <<"", "A", "B", "C", "D", "E", "F", "G", "H", "I", "J", "Unknown">>

\* student document i of a snapshot that cycles through m section values
\* starting at value r
StudentDoc(i, m, r) ==
  LET s == (((i - 1) % m) + r) % (Len(SectionLabels) + 1)
      c == (i + r) % 4
  IN IF s = 0 /\ c = 3 THEN [id |-> i]
     ELSE IF s = 0 THEN [id |-> i, experimentsCompleted |-> [j \in 1..(2 * c) |-> j]]
     ELSE IF c = 3 THEN [id |-> i, section |-> SectionLabels[s]]
     ELSE [id |-> i, section |-> SectionLabels[s],
           experimentsCompleted |-> [j \in 1..(2 * c) |-> j]]

StudentSnapshots(maxN, maxM, starts) ==
  { [i \in 1..n |-> StudentDoc(i, m, r)] :
      n \in 0..maxN, m \in 1..maxM, r \in starts }

ExperimentSnapshots(maxE) == { [i \in 1..n |-> [id |-> i]] : n \in 0..maxE }

(***************************************************************************)
(* State.  fetches[t] is the t-th call of fetchStats: the profile its      *)
(* closure captured, where it stands, the students it read, the queries    *)
(* it issued, whether it called setStats, what it logged, and the view     *)
(* model at the moment it started.                                         *)
(***************************************************************************)
NewFetch(p, pc, queried, wrote, startStats) ==
  [ profile |-> p, pc |-> pc, students |-> <<>>, experiments |-> <<>>,
    queried |-> queried, wrote |-> wrote, logged |-> "",
    startStats |-> startStats ]

Init ==
  /\ userProfile \in Profiles
  /\ stats = InitialStats
  /\ effectPending = TRUE
  /\ fetches = <<>>
  /\ lastWriter = 0

\* the auth provider supplies a new profile reference: the component
\* re-renders and the effect is scheduled
SetProfile(p) ==
  /\ ~effectPending
  /\ Len(fetches) < MaxFetches
  /\ userProfile' = p
  /\ effectPending' = TRUE
  /\ UNCHANGED <<stats, fetches, lastWriter>>

\* fetchStats without the early return for an absent profile: the run falls
\* into the student branch
fetchStatsNoGuard ==
  /\ effectPending
  /\ effectPending' = FALSE
  /\ IF HasProfile(userProfile) /\ userProfile.role = "faculty"
     THEN /\ fetches' = Append(fetches,
                 NewFetch(userProfile, "awaitStudents", <<"students">>,
                          FALSE, stats))
          /\ UNCHANGED <<stats, lastWriter>>
     ELSE /\ stats' = StudentStats(userProfile)
          /\ fetches' = Append(fetches,
                 NewFetch(userProfile, "done", <<>>, TRUE, stats))
          /\ lastWriter' = Len(fetches) + 1
  /\ UNCHANGED userProfile

\* the effect runs fetchStats() up to its first await
fetchStats ==
  /\ effectPending
  /\ effectPending' = FALSE
  /\ IF ~HasProfile(userProfile)
     THEN /\ fetches' = Append(fetches,
                 NewFetch(userProfile, "returned", <<>>, FALSE, stats))
          /\ UNCHANGED <<stats, lastWriter>>
     ELSE IF userProfile.role = "faculty"
     THEN /\ fetches' = Append(fetches,
                 NewFetch(userProfile, "awaitStudents", <<"students">>,
                          FALSE, stats))
          /\ UNCHANGED <<stats, lastWriter>>
     ELSE /\ stats' = StudentStats(userProfile)
          /\ fetches' = Append(fetches,
                 NewFetch(userProfile, "done", <<>>, TRUE, stats))
          /\ lastWriter' = Len(fetches) + 1
  /\ UNCHANGED userProfile

\* await getDocs(studentsQuery) resolves: sectionData is computed and the
\* experiments query is issued
StudentsResolve(t, students) ==
  /\ t \in 1..Len(fetches)
  /\ fetches[t].pc = "awaitStudents"
  /\ fetches' = [fetches EXCEPT ![t].pc = "awaitExperiments",
                                ![t].students = students,
                                ![t].queried = Append(@, "experiments")]
  /\ UNCHANGED <<userProfile, stats, effectPending, lastWriter>>

\* StudentsThrow with the students query isolated in its own try/catch: the
\* error is logged and the experiments query is issued all the same
StudentsThrowIsolated(t) ==
  /\ t \in 1..Len(fetches)
  /\ fetches[t].pc = "awaitStudents"
  /\ fetches' = [fetches EXCEPT ![t].pc = "awaitExperiments",
                                ![t].logged = "students",
                                ![t].queried = Append(@, "experiments")]
  /\ UNCHANGED <<userProfile, stats, effectPending, lastWriter>>

\* await getDocs(studentsQuery) throws: the catch block logs
StudentsThrow(t) ==
  /\ t \in 1..Len(fetches)
  /\ fetches[t].pc = "awaitStudents"
  /\ fetches' = [fetches EXCEPT ![t].pc = "failed", ![t].logged = "students"]
  /\ UNCHANGED <<userProfile, stats, effectPending, lastWriter>>

\* ExperimentsResolve with a stale-result guard: only the fetch started
\* last calls setStats
ExperimentsResolveIfCurrent(t, experiments) ==
  /\ t \in 1..Len(fetches)
  /\ fetches[t].pc = "awaitExperiments"
  /\ IF t = Len(fetches)
     THEN /\ stats' = FacultyStats(fetches[t].students, experiments)
          /\ fetches' = [fetches EXCEPT ![t].pc = "done",
                                        ![t].experiments = experiments,
                                        ![t].wrote = TRUE]
          /\ lastWriter' = t
     ELSE /\ fetches' = [fetches EXCEPT ![t].pc = "done",
                                        ![t].experiments = experiments]
          /\ UNCHANGED <<stats, lastWriter>>
  /\ UNCHANGED <<userProfile, effectPending>>

\* await getDocs(experimentsQuery) resolves: setStats of the faculty branch
ExperimentsResolve(t, experiments) ==
  /\ t \in 1..Len(fetches)
  /\ fetches[t].pc = "awaitExperiments"
  /\ stats' = FacultyStats(fetches[t].students, experiments)
  /\ fetches' = [fetches EXCEPT ![t].pc = "done",
                                ![t].experiments = experiments,
                                ![t].wrote = TRUE]
  /\ lastWriter' = t
  /\ UNCHANGED <<userProfile, effectPending>>

\* ExperimentsThrow with a catch block that resets the view model
ExperimentsThrowResets(t) ==
  /\ t \in 1..Len(fetches)
  /\ fetches[t].pc = "awaitExperiments"
  /\ stats' = InitialStats
  /\ fetches' = [fetches EXCEPT ![t].pc = "failed", ![t].students = <<>>,
                                ![t].logged = "experiments"]
  /\ UNCHANGED <<userProfile, effectPending, lastWriter>>

\* await getDocs(experimentsQuery) throws: the catch block logs
ExperimentsThrow(t) ==
  /\ t \in 1..Len(fetches)
  /\ fetches[t].pc = "awaitExperiments"
  /\ fetches' = [fetches EXCEPT ![t].pc = "failed", ![t].students = <<>>,
                                ![t].logged = "experiments"]
  /\ UNCHANGED <<userProfile, stats, effectPending, lastWriter>>

Next ==
  \/ \E p \in Profiles : SetProfile(p)
  \/ fetchStats
  \/ \E t \in 1..MaxFetches, s \in StudentSnapshots(MaxStudents, 2, {1}) :
       StudentsResolve(t, s)
  \/ \E t \in 1..MaxFetches : StudentsThrow(t)
  \/ \E t \in 1..MaxFetches, e \in ExperimentSnapshots(MaxExperiments) :
       ExperimentsResolve(t, e)
  \/ \E t \in 1..MaxFetches : ExperimentsThrow(t)

Spec == Init /\ [][Next]_vars

\* one profile, one fetch, over the wide inputs
InitWide ==
  /\ userProfile \in WideProfiles
  /\ stats = InitialStats
  /\ effectPending = TRUE
  /\ fetches = <<>>
  /\ lastWriter = 0

NextWide ==
  \/ fetchStats
  \/ \E s \in StudentSnapshots(MaxWideStudents, Len(SectionLabels) + 1,
                                0..Len(SectionLabels)) :
       StudentsResolve(1, s)
  \/ StudentsThrow(1)
  \/ \E e \in ExperimentSnapshots(MaxWideExperiments) : ExperimentsResolve(1, e)
  \/ ExperimentsThrow(1)

SpecWide == InitWide /\ [][NextWide]_vars

(***************************************************************************)
(* Notions the properties are stated in.                                   *)
(***************************************************************************)
Fetches == 1..Len(fetches)

IsFaculty(p) == HasProfile(p) /\ p.role = "faculty"

IsStudent(p) == HasProfile(p) /\ p.role # "faculty"

Finished(f) == f.pc \in {"returned", "done", "failed"}

\* the view model the fetch f computed for its profile and snapshots
Result(f) ==
  IF IsFaculty(f.profile) THEN FacultyStats(f.students, f.experiments)
  ELSE StudentStats(f.profile)

\* the value of the last setStats call, or the initial value if there is none
LastWritten ==
  IF lastWriter = 0 THEN InitialStats ELSE Result(fetches[lastWriter])

\* fetch t fails in this step / resolves with success in this step
BecomesFailed(t) ==
  t \in Fetches /\ fetches[t].pc # "failed" /\ fetches'[t].pc = "failed"

BecomesDone(t) ==
  /\ t \in 1..Len(fetches')
  /\ fetches'[t].pc = "done"
  /\ (t \in Fetches => fetches[t].pc # "done")

\* fetchStats is called in this step
FetchStarts == Len(fetches') = Len(fetches) + 1

RECURSIVE QueriesFrom(_, _)
QueriesFrom(fs, t) ==
  IF t > Len(fs) THEN 0 ELSE Len(fs[t].queried) + QueriesFrom(fs, t + 1)

\* the number of document-store queries issued so far
TotalQueries == QueriesFrom(fetches, 1)

RECURSIVE SumValues(_, _)
SumValues(entries, i) ==
  IF i > Len(entries) THEN 0 ELSE entries[i].value + SumValues(entries, i + 1)

TypeOK ==
  /\ effectPending \in BOOLEAN
  /\ lastWriter \in 0..Len(fetches)
  /\ Len(fetches) <= MaxFetches

(***************************************************************************)
(* C1.  As claimed: when a query of a fetch throws, the error is logged,   *)
(* the fetch writes nothing and is not retried, and the view model is the  *)
(* one the component had when that fetch started.                          *)
(***************************************************************************)
C1_FailedFetchKeepsStartValue ==
  [][\A t \in 1..MaxFetches :
       BecomesFailed(t) =>
         /\ fetches'[t].logged # ""
         /\ ~fetches'[t].wrote
         /\ stats' = fetches[t].startStats]_vars

(***************************************************************************)
(* C1, amended.  When a query of a fetch throws, the error is logged, the  *)
(* failing fetch writes nothing (the view model after the failure is the   *)
(* one right before it, which is the initial value or the last value       *)
(* written with success, possibly by an overlapping fetch), no query is    *)
(* issued by the failure and a failed fetch never runs again.              *)
(***************************************************************************)
C1_FailedFetchWritesNothing ==
  [][\A t \in 1..MaxFetches :
       /\ BecomesFailed(t) =>
            /\ fetches'[t].logged # ""
            /\ ~fetches'[t].wrote
            /\ stats' = stats
            /\ stats' = LastWritten'
            /\ TotalQueries' = TotalQueries
       /\ (t \in Fetches /\ fetches[t].pc = "failed") =>
            fetches'[t] = fetches[t]]_vars

\* the experiments query of a fetch threw after an overlapping fetch had
\* written the view model
C1_Witness ==
  \E t \in Fetches :
    /\ fetches[t].pc = "failed"
    /\ fetches[t].logged = "experiments"
    /\ stats # fetches[t].startStats
    /\ stats # InitialStats

(***************************************************************************)
(* C2.  A new fetch leaves the fetches in flight as they are, every fetch  *)
(* that resolves with success writes the whole view model it computed,     *)
(* nothing else writes, and so the view model is the result of the fetch   *)
(* that resolved last, whatever the order the fetches started in.          *)
(***************************************************************************)
C2_LastWriterWins ==
  /\ [](stats = LastWritten)
  /\ [][/\ FetchStarts => \A t \in Fetches : fetches'[t] = fetches[t]
        /\ \A t \in 1..MaxFetches :
             BecomesDone(t) => stats' = Result(fetches'[t]) /\ lastWriter' = t
        /\ stats' # stats => \E t \in 1..MaxFetches : BecomesDone(t)]_vars

\* two overlapping fetches both resolved, the one started first resolved
\* last and its result is the view model
C2_Witness ==
  /\ Len(fetches) >= 2
  /\ fetches[1].pc = "done" /\ fetches[2].pc = "done"
  /\ lastWriter = 1
  /\ stats = Result(fetches[1])
  /\ stats # Result(fetches[2])

(***************************************************************************)
(* C3.  A fetchStats called while the profile is absent issues no query    *)
(* and does not write the view model, and the component renders nothing    *)
(* in every state in which the profile is absent.                          *)
(***************************************************************************)
C3_NoProfileNoFetch ==
  /\ [](~HasProfile(userProfile) => Render = NullView)
  /\ [](\A t \in Fetches :
          ~HasProfile(fetches[t].profile) =>
            fetches[t].queried = <<>> /\ ~fetches[t].wrote)
  /\ [][(FetchStarts /\ ~HasProfile(userProfile)) =>
          /\ stats' = stats
          /\ TotalQueries' = TotalQueries
          /\ lastWriter' = lastWriter]_vars

\* a fetch ran without a profile after an earlier fetch had written the
\* view model, and the profile is still absent
C3_Witness ==
  /\ ~HasProfile(userProfile)
  /\ ~effectPending
  /\ stats # InitialStats
  /\ Len(fetches) >= 2
  /\ ~HasProfile(fetches[Len(fetches)].profile)
  /\ fetches[Len(fetches)].pc = "returned"
  /\ fetches[Len(fetches)].startStats = stats

(***************************************************************************)
(* C4.  In every state the counts of the section breakdown add up to       *)
(* totalStudents.                                                          *)
(***************************************************************************)
C4_SectionCountsSumToTotal ==
  SumValues(stats.sectionWiseStudents, 1) = stats.totalStudents

\* a faculty fetch wrote a breakdown of two sections over two students
C4_Witness ==
  /\ stats.totalStudents >= 2
  /\ Len(stats.sectionWiseStudents) >= 2
  /\ \E t \in Fetches : fetches[t].pc = "failed"

(***************************************************************************)
(* The properties of the aggregation, stated over the snapshots a fetch    *)
(* read rather than over the loops that compute it.                        *)
(***************************************************************************)
\* the section label a student document counts under
LabelOf(students, k) ==
  IF "section" \in DOMAIN students[k]
  THEN IF students[k].section = "" THEN "Unknown" ELSE students[k].section
  ELSE "Unknown"

\* the documents of a snapshot that count under a label
WithLabel(students, l) == { k \in 1..Len(students) : LabelOf(students, k) = l }

\* the position at which a label is first met
FirstMet(students, l) ==
  CHOOSE k \in WithLabel(students, l) : \A j \in WithLabel(students, l) : k <= j

\* the completions of a snapshot, as the set of (student, completion) pairs
Completions(students) ==
  UNION { { <<k, j>> : j \in DOMAIN students[k].experimentsCompleted } :
            k \in { i \in 1..Len(students) :
                      "experimentsCompleted" \in DOMAIN students[i] } }

\* the faculty fetch whose write is the current view model
FacultyWritten(t) ==
  /\ t \in Fetches
  /\ lastWriter = t
  /\ IsFaculty(fetches[t].profile)
  /\ fetches[t].pc = "done"

\* the student fetch whose write is the current view model
StudentWritten(t) ==
  /\ t \in Fetches
  /\ lastWriter = t
  /\ IsStudent(fetches[t].profile)
  /\ fetches[t].pc = "done"

(***************************************************************************)
(* C5.  After a faculty fetch over S students and E experiments the view   *)
(* model has totalStudents = S, totalExperiments = E, completedExperiments *)
(* = C, the number of completions of the S students, and the experiment    *)
(* progress is Completed = C, Pending = max(0, S*E - C), never negative.   *)
(***************************************************************************)
C5_FacultyTotals ==
  \A t \in Fetches :
    FacultyWritten(t) =>
      LET S == Len(fetches[t].students)
          E == Len(fetches[t].experiments)
          C == Cardinality(Completions(fetches[t].students))
          P == stats.experimentProgress
      IN /\ stats.totalStudents = S
         /\ stats.totalExperiments = E
         /\ stats.completedExperiments = C
         /\ Len(P) = 2
         /\ P[1].name = "Completed" /\ P[1].value = C
         /\ P[2].name = "Pending"
         /\ P[2].value = (IF S * E >= C THEN (S * E) - C ELSE 0)
         /\ P[2].value >= 0

\* a faculty fetch with more completions than students times experiments,
\* and one of them without a completions list
C5_Witness ==
  \E t \in Fetches :
    /\ FacultyWritten(t)
    /\ Len(fetches[t].experiments) >= 1
    /\ stats.completedExperiments > stats.totalStudents * stats.totalExperiments
    /\ stats.experimentProgress[2].value = 0
    /\ \E k \in 1..Len(fetches[t].students) :
         "experimentsCompleted" \notin DOMAIN fetches[t].students[k]

(***************************************************************************)
(* C6.  After a student fetch for a profile with n completed experiments   *)
(* and k viva keys (0 for a missing field) the view model has              *)
(* completedExperiments = n, vivaAttempts = k, totalExperiments = 5,       *)
(* totalStudents = 0, no section breakdown, the progress lists Completed = *)
(* n, Remaining = max(0, 5 - n) and Attempted = k, Remaining = max(0, 5 -  *)
(* k), never negative, and the fetch issued no query.                      *)
(***************************************************************************)
C6_StudentTotals ==
  \A t \in Fetches :
    StudentWritten(t) =>
      LET p == fetches[t].profile
          n == IF "experimentsCompleted" \in DOMAIN p
               THEN Cardinality(DOMAIN p.experimentsCompleted) ELSE 0
          k == IF "vivaScores" \in DOMAIN p
               THEN Cardinality(DOMAIN p.vivaScores) ELSE 0
          EP == stats.experimentProgress
          VP == stats.vivaProgress
      IN /\ stats.completedExperiments = n
         /\ stats.vivaAttempts = k
         /\ stats.totalExperiments = 5
         /\ stats.totalStudents = 0
         /\ stats.sectionWiseStudents = <<>>
         /\ Len(EP) = 2 /\ Len(VP) = 2
         /\ EP[1].name = "Completed" /\ EP[1].value = n
         /\ EP[2].name = "Remaining"
         /\ EP[2].value = (IF n <= 5 THEN 5 - n ELSE 0)
         /\ VP[1].name = "Attempted" /\ VP[1].value = k
         /\ VP[2].name = "Remaining"
         /\ VP[2].value = (IF k <= 5 THEN 5 - k ELSE 0)
         /\ EP[2].value >= 0 /\ VP[2].value >= 0
         /\ fetches[t].queried = <<>>
         /\ TotalQueries = 0

\* a student fetch with more than 5 completions and more than 5 viva keys
C6_Witness ==
  \E t \in Fetches :
    /\ StudentWritten(t)
    /\ stats.completedExperiments > 5
    /\ stats.vivaAttempts > 5
    /\ stats.experimentProgress[2].value = 0
    /\ stats.vivaProgress[2].value = 0

(***************************************************************************)
(* C7.  After a faculty fetch the section breakdown has one entry for      *)
(* each label of the students, a missing or empty section counting under   *)
(* "Unknown", in the order the labels are first met, each with the number  *)
(* of students of that label, the i-th entry (from 0) with color i mod 8   *)
(* of the palette.                                                         *)
(***************************************************************************)
C7_SectionBreakdown ==
  \A t \in Fetches :
    FacultyWritten(t) =>
      LET L == fetches[t].students
          D == stats.sectionWiseStudents
      IN /\ { D[i].name : i \in 1..Len(D) } = { LabelOf(L, k) : k \in 1..Len(L) }
         /\ \A i, j \in 1..Len(D) : i # j => D[i].name # D[j].name
         /\ \A i, j \in 1..Len(D) :
              i < j => FirstMet(L, D[i].name) < FirstMet(L, D[j].name)
         /\ \A i \in 1..Len(D) :
              /\ D[i].value = Cardinality(WithLabel(L, D[i].name))
              /\ D[i].color = colors[((i - 1) % 8) + 1]

\* nine sections or more, so that the palette starts again, with a student
\* without a section and one with an empty section both under "Unknown"
C7_Witness ==
  \E t \in Fetches :
    /\ FacultyWritten(t)
    /\ Len(stats.sectionWiseStudents) >= 9
    /\ stats.sectionWiseStudents[9].color = "#3B82F6"
    /\ \E i \in 1..Len(stats.sectionWiseStudents) :
         /\ stats.sectionWiseStudents[i].name = "Unknown"
         /\ stats.sectionWiseStudents[i].value >= 2
    /\ \E k \in 1..Len(fetches[t].students) :
         "section" \notin DOMAIN fetches[t].students[k]
    /\ \E k \in 1..Len(fetches[t].students) :
         /\ "section" \in DOMAIN fetches[t].students[k]
         /\ fetches[t].students[k].section = ""

(***************************************************************************)
(* C8.  As claimed: a run of fetchStats without a profile issues no query, *)
(* and a finished run for a faculty profile has attempted both the         *)
(* students query and the experiments query, never exactly one of them.    *)
(***************************************************************************)
C8_BothQueriesOrNone ==
  \A t \in Fetches :
    /\ ~HasProfile(fetches[t].profile) => fetches[t].queried = <<>>
    /\ (IsFaculty(fetches[t].profile) /\ Finished(fetches[t])) =>
         fetches[t].queried = <<"students", "experiments">>

(***************************************************************************)
(* C8, amended.  A run of fetchStats without a profile issues no query; a  *)
(* run for a faculty profile always attempts the students query first, and *)
(* attempts the experiments query exactly when the students query did not  *)
(* throw: the run in which the students query throws attempts exactly one  *)
(* query.                                                                  *)
(***************************************************************************)
C8_ExperimentsQueryIffStudentsResolved ==
  \A t \in Fetches :
    /\ ~HasProfile(fetches[t].profile) =>
         fetches[t].queried = <<>> /\ fetches[t].pc = "returned"
    /\ IsFaculty(fetches[t].profile) =>
         /\ fetches[t].queried \in {<<"students">>, <<"students", "experiments">>}
         /\ (fetches[t].queried = <<"students", "experiments">>)
              <=> (fetches[t].pc # "awaitStudents" /\ fetches[t].logged # "students")
         /\ (Finished(fetches[t]) /\ fetches[t].queried = <<"students">>)
              => (fetches[t].pc = "failed" /\ fetches[t].logged = "students")

\* a faculty run whose students query threw: exactly one query attempted
C8_Witness ==
  \E t \in Fetches :
    /\ IsFaculty(fetches[t].profile)
    /\ fetches[t].pc = "failed"
    /\ fetches[t].logged = "students"
    /\ fetches[t].queried = <<"students">>

(***************************************************************************)
(* C9.  As claimed: once every fetch that started has resolved without a   *)
(* failure and a profile is present, the view model is the aggregation the *)
(* fetch for the current profile computed.                                 *)
(***************************************************************************)
C9_QuiescentConsistency ==
  ( /\ HasProfile(userProfile)
    /\ ~effectPending
    /\ fetches # <<>>
    /\ \A t \in Fetches : fetches[t].pc \in {"returned", "done"} )
  => /\ fetches[Len(fetches)].profile = userProfile
     /\ stats = Result(fetches[Len(fetches)])

(***************************************************************************)
(* C10.  As claimed: whenever the student view is rendered,                *)
(* stats.totalExperiments is greater than 0 and the Success Rate card      *)
(* shows a number.                                                         *)
(***************************************************************************)
C10_SuccessRateDefined ==
  IsStudent(userProfile) =>
    /\ stats.totalExperiments > 0
    /\ "number" \in DOMAIN Render.cards[4].value

====
